---- MODULE Spec2Model ----
(***************************************************************************)
(* Library management service: the book service (CreateBook, UpdateBook,   *)
(* DeleteBook), the domain validation and merge functions, and the         *)
(* PostgreSQL books table with its constraints and its updated_at trigger. *)
(*                                                                         *)
(* A service call is a sequence of repository calls; every repository call *)
(* is one SQL statement and therefore one atomic step.  Requests are       *)
(* handled by independent goroutines, so the steps of different calls      *)
(* interleave freely.                                                      *)
(***************************************************************************)
EXTENDS Integers, Sequences, FiniteSets, TLC

VARIABLES books, nextID, now, skew, trigger,
          pc, creq, ureq, bid, lbook, lerr, ncalls, lrows, resp

vars == <<books, nextID, now, skew, trigger,
          pc, creq, ureq, bid, lbook, lerr, ncalls, lrows, resp>>

(***************************************************************************)
(* Bounds of the model.                                                    *)
(***************************************************************************)
\* number of repository calls in a behaviour (every call takes one time unit)
MaxSteps == 5
\* largest offset between the application clock and the database clock
MaxSkew == 5
\* largest id a request may name
MaxId == 1

\* the requests in flight at the same time (one goroutine each)
Procs == {"p1", "p2"}
Ids == 0..MaxId
Skews == {0 - MaxSkew, 0, MaxSkew}
\* the time of the first call; the table was filled in the 4 time units before
StartTime == MaxSkew + 5

(***************************************************************************)
(* Program constants.                                                      *)
(***************************************************************************)
MinPublishYear == 1000
MaxPublishYear == 2030
MinPages == 1
TitleCap == 255
AuthorCap == 255
IsbnCap == 20
PublisherCap == 255
GenreCap == 100
DescriptionCap == 1000

(***************************************************************************)
(* Strings are sequences of characters.                                    *)
(***************************************************************************)
Str(n) == [i \in 1..n |-> "x"]
Empty == << >>

\* the zero value of domain.Book
NoBook ==
  [id |-> 0, title |-> Empty, author |-> Empty, isbn |-> Empty,
   publisher |-> Empty, publish_year |-> 0, genre |-> Empty, pages |-> 0,
   available |-> FALSE, description |-> Empty, created_at |-> 0,
   updated_at |-> 0]

\* the zero value of domain.CreateBookRequest
NoCreate ==
  [title |-> Empty, author |-> Empty, isbn |-> Empty, publisher |-> Empty,
   publish_year |-> 0, genre |-> Empty, pages |-> 0, description |-> Empty]

\* optional (pointer) fields of UpdateBookRequest: nil or a value
Nil == << >>
Some(v) == << v >>
IsNil(o) == Len(o) = 0
Val(o) == o[1]

\* the zero value of domain.UpdateBookRequest: every field nil
NoUpdate ==
  [title |-> Nil, author |-> Nil, isbn |-> Nil, publisher |-> Nil,
   publish_year |-> Nil, genre |-> Nil, pages |-> Nil, available |-> Nil,
   description |-> Nil]

(***************************************************************************)
(* Domain functions.                                                       *)
(***************************************************************************)
\* CreateBookRequest.Validate: the first failed check, or "nil"
Validate_NoTitle(r) ==
  IF r.author = Empty THEN "author is required"
  ELSE IF r.isbn = Empty THEN "ISBN is required"
  ELSE IF r.publisher = Empty THEN "publisher is required"
  ELSE IF r.genre = Empty THEN "genre is required"
  ELSE IF r.publish_year < MinPublishYear \/ r.publish_year > MaxPublishYear
    THEN "publish year must be between 1000 and 2030"
  ELSE IF r.pages < MinPages THEN "pages must be greater than 0"
  ELSE "nil"

Validate_YearOffByOne(r) ==
  IF r.title = Empty THEN "title is required"
  ELSE IF r.author = Empty THEN "author is required"
  ELSE IF r.isbn = Empty THEN "ISBN is required"
  ELSE IF r.publisher = Empty THEN "publisher is required"
  ELSE IF r.genre = Empty THEN "genre is required"
  ELSE IF r.publish_year <= MinPublishYear \/ r.publish_year > MaxPublishYear
    THEN "publish year must be between 1000 and 2030"
  ELSE IF r.pages < MinPages THEN "pages must be greater than 0"
  ELSE "nil"

Validate(r) ==
  IF r.title = Empty THEN "title is required"
  ELSE IF r.author = Empty THEN "author is required"
  ELSE IF r.isbn = Empty THEN "ISBN is required"
  ELSE IF r.publisher = Empty THEN "publisher is required"
  ELSE IF r.genre = Empty THEN "genre is required"
  ELSE IF r.publish_year < MinPublishYear \/ r.publish_year > MaxPublishYear
    THEN "publish year must be between 1000 and 2030"
  ELSE IF r.pages < MinPages THEN "pages must be greater than 0"
  ELSE "nil"

\* CreateBookRequest.ToBook, t the reading of the application clock
ToBook_Unavailable(r, t) ==
  [id |-> 0, title |-> r.title, author |-> r.author, isbn |-> r.isbn,
   publisher |-> r.publisher, publish_year |-> r.publish_year,
   genre |-> r.genre, pages |-> r.pages, available |-> FALSE,
   description |-> r.description, created_at |-> t, updated_at |-> t]

ToBook(r, t) ==
  [id |-> 0, title |-> r.title, author |-> r.author, isbn |-> r.isbn,
   publisher |-> r.publisher, publish_year |-> r.publish_year,
   genre |-> r.genre, pages |-> r.pages, available |-> TRUE,
   description |-> r.description, created_at |-> t, updated_at |-> t]

\* a nil pointer leaves the field, a set pointer overwrites it
Pick(o, old) == IF IsNil(o) THEN old ELSE Val(o)

\* UpdateBookRequest.ApplyTo, t the reading of the application clock
ApplyTo_ZeroValues(r, book, t) ==
  [book EXCEPT
     !.title = Pick(r.title, book.title),
     !.author = Pick(r.author, book.author),
     !.isbn = Pick(r.isbn, book.isbn),
     !.publisher = Pick(r.publisher, book.publisher),
     !.publish_year = Pick(r.publish_year, book.publish_year),
     !.genre = Pick(r.genre, book.genre),
     !.pages = Pick(r.pages, book.pages),
     !.available = Pick(r.available, FALSE),
     !.description = Pick(r.description, book.description),
     !.updated_at = t]

ApplyTo(r, book, t) ==
  [book EXCEPT
     !.title = Pick(r.title, book.title),
     !.author = Pick(r.author, book.author),
     !.isbn = Pick(r.isbn, book.isbn),
     !.publisher = Pick(r.publisher, book.publisher),
     !.publish_year = Pick(r.publish_year, book.publish_year),
     !.genre = Pick(r.genre, book.genre),
     !.pages = Pick(r.pages, book.pages),
     !.available = Pick(r.available, book.available),
     !.description = Pick(r.description, book.description),
     !.updated_at = t]

(***************************************************************************)
(* The books table.  books maps the id of every stored row to the row.     *)
(***************************************************************************)
\* SELECT ... WHERE id = $1: the row, or the zero Book with sql.ErrNoRows
RowByID_AnyRow(bks, id) ==
  IF DOMAIN bks # {} THEN bks[CHOOSE i \in DOMAIN bks : TRUE] ELSE NoBook

RowByID(bks, id) == IF id \in DOMAIN bks THEN bks[id] ELSE NoBook

\* SELECT ... WHERE isbn = $1: the row, or the zero Book with sql.ErrNoRows
RowByISBN_First(bks, isbn) ==
  IF \E i \in DOMAIN bks : bks[i].isbn = isbn
    THEN bks[CHOOSE i \in DOMAIN bks : \A j \in DOMAIN bks : i <= j]
    ELSE NoBook

RowByISBN(bks, isbn) ==
  IF \E i \in DOMAIN bks : bks[i].isbn = isbn
    THEN bks[CHOOSE i \in DOMAIN bks : bks[i].isbn = isbn]
    ELSE NoBook

\* VARCHAR(n) columns reject a longer value
TooLong(row) ==
  \/ Len(row.title) > TitleCap
  \/ Len(row.author) > AuthorCap
  \/ Len(row.isbn) > IsbnCap
  \/ Len(row.publisher) > PublisherCap
  \/ Len(row.genre) > GenreCap

\* CHECK (publish_year >= 1000 AND publish_year <= 2030), CHECK (pages > 0)
CheckViolated(row) ==
  \/ row.publish_year < MinPublishYear
  \/ row.publish_year > MaxPublishYear
  \/ ~(row.pages > 0)

\* isbn ... UNIQUE: another row holds the isbn
UniqueViolated_None(bks, id, isbn) == FALSE

UniqueViolated(bks, id, isbn) ==
  \E i \in DOMAIN bks : i # id /\ bks[i].isbn = isbn

\* the constraint that rejects writing row under id, or "none"
Violation_NoUnique(bks, id, row) ==
  IF TooLong(row) THEN "value_too_long"
  ELSE IF CheckViolated(row) THEN "check_violation"
  ELSE "none"

Violation(bks, id, row) ==
  IF TooLong(row) THEN "value_too_long"
  ELSE IF CheckViolated(row) THEN "check_violation"
  ELSE IF UniqueViolated(bks, id, row.isbn) THEN "unique_violation"
  ELSE "none"

\* INSERT INTO books ... : the table with row stored under id
InsertRow(bks, id, row) ==
  [i \in DOMAIN bks \cup {id} |-> IF i = id THEN row ELSE bks[i]]

\* DELETE FROM books WHERE id = $1
DeleteRow_Keep(bks, id) == bks

DeleteRow_AllRows(bks, id) == << >>

DeleteRow(bks, id) == [i \in DOMAIN bks \ {id} |-> bks[i]]

\* UPDATE books SET title = $2, ..., updated_at = $11 WHERE id = $1: the new
\* row; id and created_at are no columns of the SET list.  The BEFORE UPDATE
\* trigger, when it was installed, replaces updated_at by CURRENT_TIMESTAMP.
UpdatedRow(old, book, trig, dbnow) ==
  [old EXCEPT
     !.title = book.title, !.author = book.author, !.isbn = book.isbn,
     !.publisher = book.publisher, !.publish_year = book.publish_year,
     !.genre = book.genre, !.pages = book.pages,
     !.available = book.available, !.description = book.description,
     !.updated_at = IF trig THEN dbnow ELSE book.updated_at]

\* time.Now() of the application at time t; the database clock reads t
AppClock(t) == t + skew
DbClock(t) == t

\* CreateBook: err == nil && existingBook != nil
Conflict_Never(err, existingBook) == FALSE

Conflict(err, existingBook) == err = "nil" /\ existingBook # NoBook

\* UpdateBook: err == nil && conflictingBook != nil && conflictingBook.ID != id
UpdateConflict_Never(err, conflictingBook, id) == FALSE

UpdateConflict(err, conflictingBook, id) ==
  err = "nil" /\ conflictingBook # NoBook /\ conflictingBook.id # id

(***************************************************************************)
(* Filtering.  LOWER and LIKE are computed as PostgreSQL computes them: in  *)
(* a LIKE pattern % stands for any string, _ for any one character and a   *)
(* backslash takes the next character literally.                           *)
(***************************************************************************)
UpperCase ==
  <<"A", "B", "C", "D", "E", "F", "G", "H", "I", "J", "K", "L", "M", "N", "O",
    "P", "Q", "R", "S", "T", "U", "V", "W", "X", "Y", "Z">>

LowerCase ==
  <<"a", "b", "c", "d", "e", "f", "g", "h", "i", "j", "k", "l", "m", "n", "o",
    "p", "q", "r", "s", "t", "u", "v", "w", "x", "y", "z">>

LowerChar(c) ==
  IF \E i \in DOMAIN UpperCase : UpperCase[i] = c
    THEN LowerCase[CHOOSE i \in DOMAIN UpperCase : UpperCase[i] = c]
    ELSE c

\* LOWER(s)
Lower(s) == [i \in DOMAIN s |-> LowerChar(s[i])]

\* s LIKE pat; the patterns of the repository end with %, so that none ends
\* with an escape character
RECURSIVE Like(_, _)
Like(s, pat) ==
  IF pat = << >> THEN s = << >>
  ELSE IF Head(pat) = "%"
    THEN Like(s, Tail(pat)) \/ (s # << >> /\ Like(Tail(s), pat))
  ELSE IF Head(pat) = "\\" /\ Len(pat) >= 2
    THEN s # << >> /\ Head(s) = pat[2] /\ Like(Tail(s), Tail(Tail(pat)))
  ELSE /\ s # << >>
       /\ (Head(pat) = "_" \/ Head(pat) = Head(s))
       /\ Like(Tail(s), Tail(pat))

\* the zero value of domain.BookFilter; a *BookFilter is Nil or Some(filter)
NoFilter == [author |-> Empty, genre |-> Empty, available |-> Nil, search |-> Empty]

\* "%" + value + "%"
Wrap(value) == <<"%">> \o value \o <<"%">>

\* the WHERE clause bookRepository.GetAll builds from the filter, on one row
GetAllWhere(filter, row) ==
  IF IsNil(filter) THEN TRUE
  ELSE LET f == Val(filter)
       IN /\ f.author # Empty
               => Like(Lower(row.author), Lower(Wrap(f.author)))
          /\ f.genre # Empty => Lower(row.genre) = Lower(f.genre)
          /\ ~IsNil(f.available) => row.available = Val(f.available)
          /\ f.search # Empty
               => \/ Like(Lower(row.title), Lower(Wrap(f.search)))
                  \/ Like(Lower(row.author), Lower(Wrap(f.search)))
                  \/ Like(Lower(row.description), Lower(Wrap(f.search)))

\* the WHERE clause bookRepository.Count builds from the filter, on one row
CountWhere_NoSearch(filter, row) ==
  IF IsNil(filter) THEN TRUE
  ELSE LET f == Val(filter)
       IN /\ f.author # Empty
               => Like(Lower(row.author), Lower(Wrap(f.author)))
          /\ f.genre # Empty => Lower(row.genre) = Lower(f.genre)
          /\ ~IsNil(f.available) => row.available = Val(f.available)

CountWhere(filter, row) ==
  IF IsNil(filter) THEN TRUE
  ELSE LET f == Val(filter)
       IN /\ f.author # Empty
               => Like(Lower(row.author), Lower(Wrap(f.author)))
          /\ f.genre # Empty => Lower(row.genre) = Lower(f.genre)
          /\ ~IsNil(f.available) => row.available = Val(f.available)
          /\ f.search # Empty
               => \/ Like(Lower(row.title), Lower(Wrap(f.search)))
                  \/ Like(Lower(row.author), Lower(Wrap(f.search)))
                  \/ Like(Lower(row.description), Lower(Wrap(f.search)))

\* ORDER BY created_at DESC: every order of the rows with the ids in ids in
\* which created_at never increases (rows with equal created_at in any order)
RECURSIVE OrderByCreatedAtDesc_Asc(_, _)
OrderByCreatedAtDesc_Asc(bks, ids) ==
  IF ids = {} THEN {<< >>}
  ELSE UNION {{<<bks[i]>> \o rest : rest \in OrderByCreatedAtDesc_Asc(bks, ids \ {i})} :
                i \in {j \in ids :
                         \A k \in ids : bks[j].created_at <= bks[k].created_at}}

RECURSIVE OrderByCreatedAtDesc(_, _)
OrderByCreatedAtDesc(bks, ids) ==
  IF ids = {} THEN {<< >>}
  ELSE UNION {{<<bks[i]>> \o rest : rest \in OrderByCreatedAtDesc(bks, ids \ {i})} :
                i \in {j \in ids :
                         \A k \in ids : bks[j].created_at >= bks[k].created_at}}

\* bookRepository.GetAll: the slices the query can return
GetAll(bks, filter) ==
  OrderByCreatedAtDesc(bks, {i \in DOMAIN bks : GetAllWhere(filter, bks[i])})

\* bookRepository.Count: SELECT COUNT(*)
Count(bks, filter) ==
  Cardinality({i \in DOMAIN bks : CountWhere(filter, bks[i])})

(***************************************************************************)
(* Requests.                                                               *)
(***************************************************************************)
R1 ==
  [title |-> <<"G", "o">>, author |-> <<"A", "l">>, isbn |-> <<"9", "1">>,
   publisher |-> <<"P", "h">>, publish_year |-> 2015, genre |-> <<"S", "f">>,
   pages |-> 380, description |-> <<"d">>]

R2 == [R1 EXCEPT !.title = <<"C", "c">>, !.isbn = <<"9", "2">>]

R3 == [R1 EXCEPT !.title = <<"D", "p">>, !.isbn = <<"9", "3">>]

CreateRequests ==
  {R1, R3}
  \cup {[R3 EXCEPT !.title = v] : v \in {Empty, Str(TitleCap + 1)}}
  \cup {[R3 EXCEPT !.author = v] : v \in {Empty, Str(AuthorCap + 1)}}
  \cup {[R3 EXCEPT !.isbn = v] : v \in {Empty, Str(IsbnCap), Str(IsbnCap + 1)}}
  \cup {[R3 EXCEPT !.publisher = v] : v \in {Empty, Str(PublisherCap + 1)}}
  \cup {[R3 EXCEPT !.genre = v] : v \in {Empty, Str(GenreCap + 1)}}
  \cup {[R3 EXCEPT !.description = v] : v \in {Empty, Str(DescriptionCap + 1)}}
  \cup {[R3 EXCEPT !.publish_year = v] :
          v \in {MinPublishYear - 1, MinPublishYear, MaxPublishYear,
                 MaxPublishYear + 1}}
  \cup {[R3 EXCEPT !.pages = v] : v \in {0 - 1, 0, MinPages}}

CoreCreateRequests == {R1, R3, [R3 EXCEPT !.title = Empty]}

CoreUpdateRequests ==
  {[NoUpdate EXCEPT !.available = Some(FALSE)],
   [NoUpdate EXCEPT !.title = Some(<<"C", "c">>)],
   [NoUpdate EXCEPT !.isbn = Some(<<"9", "3">>)]}

SeqCreateRequests ==
  {R1, R3,
   [R3 EXCEPT !.title = Empty],
   [R3 EXCEPT !.title = Str(TitleCap + 1)],
   [R3 EXCEPT !.isbn = Str(IsbnCap)],
   [R3 EXCEPT !.isbn = Str(IsbnCap + 1)],
   [R3 EXCEPT !.description = Empty]}

UpdateRequests ==
  {NoUpdate,
   [NoUpdate EXCEPT !.available = Some(FALSE)],
   [NoUpdate EXCEPT !.title = Some(<<"C", "c">>), !.pages = Some(5)],
   [NoUpdate EXCEPT !.title = Some(Empty)],
   [NoUpdate EXCEPT !.title = Some(Str(TitleCap + 1))],
   [NoUpdate EXCEPT !.isbn = Some(<<"9", "1">>)],
   [NoUpdate EXCEPT !.isbn = Some(<<"9", "2">>)],
   [NoUpdate EXCEPT !.isbn = Some(<<"9", "3">>)],
   [NoUpdate EXCEPT !.publish_year = Some(MinPublishYear - 1)],
   [NoUpdate EXCEPT !.pages = Some(0)]}

\* a book by another author, of another genre, with a digit in its description
R4 ==
  [R3 EXCEPT !.author = <<"L", "a">>, !.isbn = <<"9", "4">>,
             !.genre = <<"H", "i">>, !.description = <<"9">>]

QueryCreateRequests == {R3, R4}

QueryUpdateRequests == {[NoUpdate EXCEPT !.available = Some(FALSE)]}

\* filters: nil, empty, one field in either case, two fields, and terms that
\* hold a character LIKE reads as a wildcard
Filters ==
  {Nil, Some(NoFilter)}
  \cup {Some([NoFilter EXCEPT !.author = v]) :
          v \in {<<"a">>, <<"a", "L">>, <<"l", "a">>, <<"_">>}}
  \cup {Some([NoFilter EXCEPT !.genre = v]) : v \in {<<"s", "F">>, <<"S">>}}
  \cup {Some([NoFilter EXCEPT !.available = Some(v)]) : v \in BOOLEAN}
  \cup {Some([NoFilter EXCEPT !.search = v]) :
          v \in {<<"9">>, <<"D">>, <<"g", "O">>, <<"%">>}}
  \cup {Some([NoFilter EXCEPT !.author = <<"A">>, !.available = Some(FALSE)]),
        Some([NoFilter EXCEPT !.genre = <<"h", "I">>, !.search = <<"p">>])}

(***************************************************************************)
(* The service operations.  pc[p] is the repository call request p makes   *)
(* next, creq[p], ureq[p], bid[p] and lbook[p] are its arguments and its    *)
(* local Book, lerr[p] the error of its last repository call, ncalls[p]    *)
(* the number of its repository calls, lrows[p] the filter and the list the *)
(* GetBooks handler holds between its two queries.  resp is the result a    *)
(* service operation has returned and its handler has not yet answered.    *)
(***************************************************************************)
NoResp ==
  [proc |-> "none", op |-> "none", status |-> "none", cause |-> "none",
   book |-> NoBook, creq |-> NoCreate, ureq |-> NoUpdate, id |-> 0,
   ncalls |-> 0, isbn |-> Empty, filter |-> Nil, list |-> << >>, count |-> 0]

\* the locals of the GetBooks handler before its first query
NoRows == [filter |-> Nil, rows |-> << >>]

\* The table after CreateBook(R1) and CreateBook(R2) have run one after the
\* other on the empty table: two calls each, ToBook after the first call.
Init ==
  /\ skew \in Skews
  /\ trigger \in BOOLEAN
  /\ now = StartTime
  /\ books =
       InsertRow(
         InsertRow(<< >>, 1, [ToBook(R1, AppClock(StartTime - 3)) EXCEPT !.id = 1]),
         2, [ToBook(R2, AppClock(StartTime - 1)) EXCEPT !.id = 2])
  /\ nextID = 3
  /\ pc = [p \in Procs |-> "idle"]
  /\ creq = [p \in Procs |-> NoCreate]
  /\ ureq = [p \in Procs |-> NoUpdate]
  /\ bid = [p \in Procs |-> 0]
  /\ lbook = [p \in Procs |-> NoBook]
  /\ lerr = [p \in Procs |-> "nil"]
  /\ ncalls = [p \in Procs |-> 0]
  /\ lrows = [p \in Procs |-> NoRows]
  /\ resp = NoResp

\* a repository call can be made: the last result has been handed over
CanCall == now < StartTime + MaxSteps /\ resp = NoResp

\* the operation of p returns: st the kind of the outcome, c the underlying
\* cause, book the returned Book, n the repository calls it made
Return(p, o, cr, ur, id, st, c, book, n) ==
  /\ resp' = [NoResp EXCEPT !.proc = p, !.op = o, !.status = st, !.cause = c,
                            !.book = book, !.creq = cr, !.ureq = ur, !.id = id,
                            !.ncalls = n]
  /\ pc' = [pc EXCEPT ![p] = "idle"]
  /\ creq' = [creq EXCEPT ![p] = NoCreate]
  /\ ureq' = [ureq EXCEPT ![p] = NoUpdate]
  /\ bid' = [bid EXCEPT ![p] = 0]
  /\ lbook' = [lbook EXCEPT ![p] = NoBook]
  /\ lerr' = [lerr EXCEPT ![p] = "nil"]
  /\ ncalls' = [ncalls EXCEPT ![p] = 0]
  /\ UNCHANGED lrows

\* the operation of p goes on to its next repository call
Goto(p, l, cr, ur, id, book, e, n) ==
  /\ pc' = [pc EXCEPT ![p] = l]
  /\ creq' = [creq EXCEPT ![p] = cr]
  /\ ureq' = [ureq EXCEPT ![p] = ur]
  /\ bid' = [bid EXCEPT ![p] = id]
  /\ lbook' = [lbook EXCEPT ![p] = book]
  /\ lerr' = [lerr EXCEPT ![p] = e]
  /\ ncalls' = [ncalls EXCEPT ![p] = n]
  /\ UNCHANGED <<lrows, resp>>

\* CreateBook up to the insert: Validate, GetByISBN, ToBook
CreateBookBegin(p, r, f) ==
  /\ pc[p] = "idle"
  /\ resp = NoResp
  /\ UNCHANGED <<books, nextID, skew, trigger>>
  /\ IF Validate(r) # "nil"
       THEN /\ Return(p, "create", r, NoUpdate, 0, "ValidationError",
                      Validate(r), NoBook, 0)
            /\ now' = now
       ELSE /\ CanCall
            /\ now' = now + 1
            /\ LET existingBook == IF f THEN NoBook ELSE RowByISBN(books, r.isbn)
                   err == IF f THEN "connection"
                          ELSE IF existingBook = NoBook THEN "no_rows" ELSE "nil"
               IN IF Conflict(err, existingBook)
                    THEN Return(p, "create", r, NoUpdate, 0, "ConflictError",
                                "nil", NoBook, 1)
                    ELSE Goto(p, "create_insert", r, NoUpdate, 0,
                              ToBook(r, AppClock(now + 1)), err, 1)

\* CreateBook: repo.Create
CreateBookInsert(p, f) ==
  /\ pc[p] = "create_insert"
  /\ CanCall
  /\ now' = now + 1
  /\ UNCHANGED <<skew, trigger>>
  /\ IF f
       THEN /\ Return(p, "create", creq[p], NoUpdate, 0, "StorageError",
                      "connection", NoBook, ncalls[p] + 1)
            /\ UNCHANGED <<books, nextID>>
       ELSE LET v == Violation(books, nextID, lbook[p])
                row == [lbook[p] EXCEPT !.id = nextID]
            IN /\ nextID' = nextID + 1
               /\ IF v # "none"
                    THEN /\ Return(p, "create", creq[p], NoUpdate, 0,
                                   "StorageError", v, NoBook, ncalls[p] + 1)
                         /\ UNCHANGED books
                    ELSE /\ Return(p, "create", creq[p], NoUpdate, 0, "ok",
                                   "nil", row, ncalls[p] + 1)
                         /\ books' = InsertRow(books, nextID, row)

\* UpdateBook up to the ISBN check: the id check and GetByID
UpdateBookBegin(p, id, r, f) ==
  /\ pc[p] = "idle"
  /\ resp = NoResp
  /\ UNCHANGED <<books, nextID, skew, trigger>>
  /\ IF id <= 0
       THEN /\ Return(p, "update", NoCreate, r, id, "InvalidArgument", "nil",
                      NoBook, 0)
            /\ now' = now
       ELSE /\ CanCall
            /\ now' = now + 1
            /\ LET existingBook == RowByID(books, id)
               IN IF f
                    THEN Return(p, "update", NoCreate, r, id, "StorageError",
                                "connection", NoBook, 1)
                  ELSE IF existingBook = NoBook
                    THEN Return(p, "update", NoCreate, r, id, "NotFound",
                                "no_rows", NoBook, 1)
                  ELSE IF ~IsNil(r.isbn) /\ Val(r.isbn) # existingBook.isbn
                    THEN Goto(p, "update_check", NoCreate, r, id,
                              existingBook, "nil", 1)
                  ELSE Goto(p, "update_write", NoCreate, r, id,
                            ApplyTo(r, existingBook, AppClock(now + 1)),
                            "nil", 1)

\* UpdateBook: GetByISBN for a changed ISBN, then ApplyTo
UpdateBookCheckISBN(p, f) ==
  /\ pc[p] = "update_check"
  /\ CanCall
  /\ now' = now + 1
  /\ UNCHANGED <<books, nextID, skew, trigger>>
  /\ LET conflictingBook ==
           IF f THEN NoBook ELSE RowByISBN(books, Val(ureq[p].isbn))
         err == IF f THEN "connection"
                ELSE IF conflictingBook = NoBook THEN "no_rows" ELSE "nil"
     IN IF UpdateConflict(err, conflictingBook, bid[p])
          THEN Return(p, "update", NoCreate, ureq[p], bid[p], "ConflictError",
                      "nil", NoBook, ncalls[p] + 1)
          ELSE Goto(p, "update_write", NoCreate, ureq[p], bid[p],
                    ApplyTo(ureq[p], lbook[p], AppClock(now + 1)), err,
                    ncalls[p] + 1)

\* UpdateBook: repo.Update
UpdateBookWrite_Upsert(p, f) ==
  /\ pc[p] = "update_write"
  /\ CanCall
  /\ now' = now + 1
  /\ UNCHANGED <<nextID, skew, trigger>>
  /\ IF f
       THEN /\ Return(p, "update", NoCreate, ureq[p], bid[p],
                      "StorageError", "connection", NoBook, ncalls[p] + 1)
            /\ UNCHANGED books
       ELSE /\ books' = InsertRow(books, lbook[p].id, lbook[p])
            /\ Return(p, "update", NoCreate, ureq[p], bid[p], "ok", "nil",
                      lbook[p], ncalls[p] + 1)

UpdateBookWrite(p, f) ==
  /\ pc[p] = "update_write"
  /\ CanCall
  /\ now' = now + 1
  /\ UNCHANGED <<nextID, skew, trigger>>
  /\ LET id == lbook[p].id
     IN IF f
          THEN /\ Return(p, "update", NoCreate, ureq[p], bid[p],
                         "StorageError", "connection", NoBook, ncalls[p] + 1)
               /\ UNCHANGED books
        ELSE IF id \notin DOMAIN books
          THEN /\ Return(p, "update", NoCreate, ureq[p], bid[p], "NotFound",
                         "no_rows", NoBook, ncalls[p] + 1)
               /\ UNCHANGED books
        ELSE IF Violation(books, id, lbook[p]) # "none"
          THEN /\ Return(p, "update", NoCreate, ureq[p], bid[p],
                         "StorageError", Violation(books, id, lbook[p]),
                         NoBook, ncalls[p] + 1)
               /\ UNCHANGED books
        ELSE LET row == UpdatedRow(books[id], lbook[p], trigger, DbClock(now))
             IN /\ books' = [books EXCEPT ![id] = row]
                /\ Return(p, "update", NoCreate, ureq[p], bid[p], "ok", "nil",
                          [lbook[p] EXCEPT !.updated_at = row.updated_at],
                          ncalls[p] + 1)

\* DeleteBook up to the delete: the id check and GetByID
DeleteBookBegin(p, id, f) ==
  /\ pc[p] = "idle"
  /\ resp = NoResp
  /\ UNCHANGED <<books, nextID, skew, trigger>>
  /\ IF id <= 0
       THEN /\ Return(p, "delete", NoCreate, NoUpdate, id, "InvalidArgument",
                      "nil", NoBook, 0)
            /\ now' = now
       ELSE /\ CanCall
            /\ now' = now + 1
            /\ IF f
                 THEN Return(p, "delete", NoCreate, NoUpdate, id, "NotFound",
                             "connection", NoBook, 1)
               ELSE IF RowByID(books, id) = NoBook
                 THEN Return(p, "delete", NoCreate, NoUpdate, id, "NotFound",
                             "no_rows", NoBook, 1)
               ELSE Goto(p, "delete_exec", NoCreate, NoUpdate, id, NoBook, "nil",
                         1)

\* DeleteBook: repo.Delete
DeleteBookExec(p, f) ==
  /\ pc[p] = "delete_exec"
  /\ CanCall
  /\ now' = now + 1
  /\ UNCHANGED <<nextID, skew, trigger>>
  /\ IF f
       THEN /\ Return(p, "delete", NoCreate, NoUpdate, bid[p], "StorageError",
                      "connection", NoBook, ncalls[p] + 1)
            /\ UNCHANGED books
     ELSE IF bid[p] \notin DOMAIN books
       THEN /\ Return(p, "delete", NoCreate, NoUpdate, bid[p], "NotFound",
                      "no_rows", NoBook, ncalls[p] + 1)
            /\ UNCHANGED books
     ELSE /\ books' = DeleteRow(books, bid[p])
          /\ Return(p, "delete", NoCreate, NoUpdate, bid[p], "ok", "nil",
                    NoBook, ncalls[p] + 1)

\* a read operation of p returns: it makes at most one repository call and
\* keeps nothing between steps
Answer(p, o, st, c, n) ==
  [NoResp EXCEPT !.proc = p, !.op = o, !.status = st, !.cause = c, !.ncalls = n]

\* GetBookByID: the id check and GetByID
GetBookByID_NoIdCheck(p, id, f) ==
  /\ pc[p] = "idle"
  /\ resp = NoResp
  /\ UNCHANGED <<books, nextID, skew, trigger, pc, creq, ureq, bid, lbook,
                 lerr, ncalls, lrows>>
  /\ CanCall
  /\ now' = now + 1
  /\ LET book == RowByID(books, id)
     IN resp' =
          IF f THEN [Answer(p, "get", "StorageError", "connection", 1)
                       EXCEPT !.id = id]
          ELSE IF book = NoBook
            THEN [Answer(p, "get", "NotFound", "no_rows", 1) EXCEPT !.id = id]
          ELSE [Answer(p, "get", "ok", "nil", 1) EXCEPT !.id = id, !.book = book]

GetBookByID(p, id, f) ==
  /\ pc[p] = "idle"
  /\ resp = NoResp
  /\ UNCHANGED <<books, nextID, skew, trigger, pc, creq, ureq, bid, lbook,
                 lerr, ncalls, lrows>>
  /\ IF id <= 0
       THEN /\ resp' = [Answer(p, "get", "InvalidArgument", "nil", 0)
                          EXCEPT !.id = id]
            /\ now' = now
       ELSE /\ CanCall
            /\ now' = now + 1
            /\ LET book == RowByID(books, id)
               IN resp' =
                    IF f THEN [Answer(p, "get", "StorageError", "connection", 1)
                                 EXCEPT !.id = id]
                    ELSE IF book = NoBook
                      THEN [Answer(p, "get", "NotFound", "no_rows", 1)
                              EXCEPT !.id = id]
                    ELSE [Answer(p, "get", "ok", "nil", 1)
                            EXCEPT !.id = id, !.book = book]

\* GetBookByISBN: the check for the empty ISBN and GetByISBN
GetBookByISBN_Take(p, isbn, f) ==
  /\ pc[p] = "idle"
  /\ CanCall
  /\ isbn # Empty
  /\ now' = now + 1
  /\ UNCHANGED <<nextID, skew, trigger, pc, creq, ureq, bid, lbook, lerr,
                 ncalls, lrows>>
  /\ LET book == RowByISBN(books, isbn)
     IN /\ books' = DeleteRow(books, book.id)
        /\ resp' =
             IF book = NoBook
               THEN [Answer(p, "get_isbn", "NotFound", "no_rows", 1)
                       EXCEPT !.isbn = isbn]
               ELSE [Answer(p, "get_isbn", "ok", "nil", 1)
                       EXCEPT !.isbn = isbn, !.book = book]

GetBookByISBN(p, isbn, f) ==
  /\ pc[p] = "idle"
  /\ resp = NoResp
  /\ UNCHANGED <<books, nextID, skew, trigger, pc, creq, ureq, bid, lbook,
                 lerr, ncalls, lrows>>
  /\ IF isbn = Empty
       THEN /\ resp' = [Answer(p, "get_isbn", "InvalidArgument", "nil", 0)
                          EXCEPT !.isbn = isbn]
            /\ now' = now
       ELSE /\ CanCall
            /\ now' = now + 1
            /\ LET book == RowByISBN(books, isbn)
               IN resp' =
                    IF f THEN [Answer(p, "get_isbn", "StorageError",
                                      "connection", 1) EXCEPT !.isbn = isbn]
                    ELSE IF book = NoBook
                      THEN [Answer(p, "get_isbn", "NotFound", "no_rows", 1)
                              EXCEPT !.isbn = isbn]
                    ELSE [Answer(p, "get_isbn", "ok", "nil", 1)
                            EXCEPT !.isbn = isbn, !.book = book]

\* GetAllBooks: GetAll; a nil slice is returned as the empty slice
GetAllBooks(p, filter, f) ==
  /\ pc[p] = "idle"
  /\ CanCall
  /\ now' = now + 1
  /\ UNCHANGED <<books, nextID, skew, trigger, pc, creq, ureq, bid, lbook,
                 lerr, ncalls, lrows>>
  /\ IF f
       THEN resp' = [Answer(p, "list", "StorageError", "connection", 1)
                       EXCEPT !.filter = filter]
       ELSE \E rows \in GetAll(books, filter) :
              resp' = [Answer(p, "list", "ok", "nil", 1)
                         EXCEPT !.filter = filter, !.list = rows]

\* GetBooksCount: Count
GetBooksCount(p, filter, f) ==
  /\ pc[p] = "idle"
  /\ CanCall
  /\ now' = now + 1
  /\ UNCHANGED <<books, nextID, skew, trigger, pc, creq, ureq, bid, lbook,
                 lerr, ncalls, lrows>>
  /\ resp' =
       IF f THEN [Answer(p, "count", "StorageError", "connection", 1)
                    EXCEPT !.filter = filter]
       ELSE [Answer(p, "count", "ok", "nil", 1)
               EXCEPT !.filter = filter, !.count = Count(books, filter)]

\* the HealthCheck handler: no service operation, no repository call
HealthCheck(p) ==
  /\ pc[p] = "idle"
  /\ resp = NoResp
  /\ resp' = Answer(p, "health", "ok", "nil", 0)
  /\ UNCHANGED <<books, nextID, now, skew, trigger, pc, creq, ureq, bid, lbook,
                 lerr, ncalls, lrows>>

\* the sample books of insertSampleData (two of them, shortened)
SampleBooks == <<R1, R2>>

\* the row INSERT INTO books (title, ..., description) stores: available,
\* created_at and updated_at take the column defaults
SampleRow(r, dbnow) ==
  [id |-> 0, title |-> r.title, author |-> r.author, isbn |-> r.isbn,
   publisher |-> r.publisher, publish_year |-> r.publish_year,
   genre |-> r.genre, pages |-> r.pages, available |-> TRUE,
   description |-> r.description, created_at |-> dbnow, updated_at |-> dbnow]

\* InitializeDatabase: createBooksTable, createIndexes and createTriggers.
\* The table exists, so that the statements touch no row and read no clock;
\* a failure of createTriggers (ft) is only warned about.
InitializeDatabaseSchema(p, f, ft) ==
  /\ pc[p] = "idle"
  /\ resp = NoResp
  /\ now < StartTime + MaxSteps
  /\ UNCHANGED <<books, nextID, now, skew>>
  /\ IF f
       THEN /\ Return(p, "init", NoCreate, NoUpdate, 0, "StorageError",
                      "connection", NoBook, 1)
            /\ UNCHANGED trigger
       ELSE /\ Goto(p, "init_count", NoCreate, NoUpdate, 0, NoBook, "nil", 1)
            /\ trigger' = IF ft THEN trigger ELSE TRUE

\* insertSampleData: SELECT COUNT(*) FROM books, and nothing more when the
\* table holds a book
InsertSampleDataCount_NoCheck(p, f) ==
  /\ pc[p] = "init_count"
  /\ CanCall
  /\ now' = now + 1
  /\ UNCHANGED <<books, nextID, skew, trigger>>
  /\ IF f
       THEN Return(p, "init", NoCreate, NoUpdate, 0, "StorageError",
                   "connection", NoBook, ncalls[p] + 1)
       ELSE Goto(p, "init_insert", NoCreate, NoUpdate, 1, NoBook, "nil",
                 ncalls[p] + 1)

InsertSampleDataCount(p, f) ==
  /\ pc[p] = "init_count"
  /\ CanCall
  /\ now' = now + 1
  /\ UNCHANGED <<books, nextID, skew, trigger>>
  /\ IF f
       THEN Return(p, "init", NoCreate, NoUpdate, 0, "StorageError",
                   "connection", NoBook, ncalls[p] + 1)
     ELSE IF Cardinality(DOMAIN books) > 0
       THEN Return(p, "init", NoCreate, NoUpdate, 0, "ok", "nil", NoBook,
                   ncalls[p] + 1)
     ELSE Goto(p, "init_insert", NoCreate, NoUpdate, 1, NoBook, "nil",
               ncalls[p] + 1)

\* insertSampleData: the INSERT of sample book bid[p]; a failed INSERT is
\* only warned about
InsertSampleBook(p, f) ==
  /\ pc[p] = "init_insert"
  /\ CanCall
  /\ now' = now + 1
  /\ UNCHANGED <<skew, trigger>>
  /\ LET k == bid[p]
         row == [SampleRow(SampleBooks[k], DbClock(now)) EXCEPT !.id = nextID]
         stored == ~f /\ Violation(books, nextID, row) = "none"
     IN /\ nextID' = IF f THEN nextID ELSE nextID + 1
        /\ books' = IF stored THEN InsertRow(books, nextID, row) ELSE books
        /\ IF k = Len(SampleBooks)
             THEN Return(p, "init", NoCreate, NoUpdate, 0, "ok", "nil", NoBook,
                         ncalls[p] + 1)
             ELSE Goto(p, "init_insert", NoCreate, NoUpdate, k + 1, NoBook,
                       "nil", ncalls[p] + 1)

\* the GetBooks handler: the filter from the query parameters and GetAllBooks
GetBooksList(p, filter, f) ==
  /\ pc[p] = "idle"
  /\ CanCall
  /\ now' = now + 1
  /\ UNCHANGED <<books, nextID, skew, trigger, creq, ureq, bid, lbook, lerr,
                 ncalls>>
  /\ IF f
       THEN /\ resp' = [Answer(p, "books", "StorageError", "connection", 1)
                          EXCEPT !.filter = filter]
            /\ UNCHANGED <<pc, lrows>>
       ELSE \E rows \in GetAll(books, filter) :
              /\ pc' = [pc EXCEPT ![p] = "books_count"]
              /\ lrows' = [lrows EXCEPT ![p] = [filter |-> filter, rows |-> rows]]
              /\ UNCHANGED resp

\* the GetBooks handler: GetBooksCount for meta.total, len(books) when the
\* count fails, and the response with meta.total and the list
GetBooksTotal(p, f) ==
  /\ pc[p] = "books_count"
  /\ CanCall
  /\ now' = now + 1
  /\ UNCHANGED <<books, nextID, skew, trigger, creq, ureq, bid, lbook, lerr,
                 ncalls>>
  /\ pc' = [pc EXCEPT ![p] = "idle"]
  /\ lrows' = [lrows EXCEPT ![p] = NoRows]
  /\ LET count == IF f THEN Len(lrows[p].rows)
                  ELSE Count(books, lrows[p].filter)
     IN resp' = [Answer(p, "books", "ok", "nil", 2)
                   EXCEPT !.filter = lrows[p].filter, !.list = lrows[p].rows,
                          !.count = count]

\* the HTTP status the handler of the operation answers the result r with:
\* every handler has one status for success and one for any error
HttpStatus(r) ==
  IF r.op = "create" THEN (IF r.status = "ok" THEN 201 ELSE 400)
  ELSE IF r.op = "update" THEN (IF r.status = "ok" THEN 200 ELSE 400)
  ELSE IF r.op \in {"get", "delete", "get_isbn"}
    THEN (IF r.status = "ok" THEN 200 ELSE 404)
  ELSE IF r.status = "ok" THEN 200 ELSE 500

\* the status field of the envelope: respondSuccess or respondError
Envelope(r) == IF r.status = "ok" THEN "success" ELSE "error"

\* the handler takes the result of the service operation and responds
Respond ==
  /\ resp # NoResp
  /\ resp' = NoResp
  /\ UNCHANGED <<books, nextID, now, skew, trigger, pc, creq, ureq, bid,
                 lbook, lerr, ncalls, lrows>>

\* the calls of the requests in P, drawing their inputs from CR and UR
Calls(P, CR, UR) ==
  \/ \E p \in P, r \in CR, f \in BOOLEAN : CreateBookBegin(p, r, f)
  \/ \E p \in P, f \in BOOLEAN : CreateBookInsert(p, f)
  \/ \E p \in P, id \in Ids, r \in UR, f \in BOOLEAN :
       UpdateBookBegin(p, id, r, f)
  \/ \E p \in P, f \in BOOLEAN : UpdateBookCheckISBN(p, f)
  \/ \E p \in P, f \in BOOLEAN : UpdateBookWrite(p, f)
  \/ \E p \in P, id \in Ids, f \in BOOLEAN : DeleteBookBegin(p, id, f)
  \/ \E p \in P, f \in BOOLEAN : DeleteBookExec(p, f)
  \/ Respond

\* concurrent requests over a few inputs
Next == Calls(Procs, CoreCreateRequests, CoreUpdateRequests)

Spec == Init /\ [][Next]_vars

\* one request at a time over more inputs
SeqNext == Calls({"p1"}, SeqCreateRequests, UpdateRequests)

SeqSpec == Init /\ [][SeqNext]_vars

\* CreateBook alone over every class of input
CreateNext ==
  \/ \E r \in CreateRequests, f \in BOOLEAN : CreateBookBegin("p1", r, f)
  \/ \E f \in BOOLEAN : CreateBookInsert("p1", f)
  \/ Respond

CreateSpec == Init /\ [][CreateNext]_vars

\* the arguments of the lookups: ids and ISBNs in and out of the table
ReadIds == (0 - 1)..(MaxId + 2)

ReadIsbns == {Empty, R1.isbn, R3.isbn, Str(2)}

\* one writing request at a time, and lookups between its repository calls
ReadNext ==
  \/ Calls({"p1"}, CoreCreateRequests, CoreUpdateRequests)
  \/ \E id \in ReadIds, f \in BOOLEAN : GetBookByID("p2", id, f)
  \/ \E isbn \in ReadIsbns, f \in BOOLEAN : GetBookByISBN("p2", isbn, f)

ReadSpec == Init /\ [][ReadNext]_vars

\* one writing request at a time, and list and count queries between its
\* repository calls
QueryNext ==
  \/ \E r \in QueryCreateRequests, f \in BOOLEAN : CreateBookBegin("p1", r, f)
  \/ \E f \in BOOLEAN : CreateBookInsert("p1", f)
  \/ \E id \in Ids, r \in QueryUpdateRequests, f \in BOOLEAN :
       UpdateBookBegin("p1", id, r, f)
  \/ \E f \in BOOLEAN : UpdateBookWrite("p1", f)
  \/ \E id \in Ids, f \in BOOLEAN : DeleteBookBegin("p1", id, f)
  \/ \E f \in BOOLEAN : DeleteBookExec("p1", f)
  \/ \E filter \in Filters, f \in BOOLEAN : GetAllBooks("p2", filter, f)
  \/ \E filter \in Filters, f \in BOOLEAN : GetBooksCount("p2", filter, f)
  \/ Respond

QuerySpec == Init /\ [][QueryNext]_vars

\* the filters of the list requests
ListFilters ==
  {Some(NoFilter), Some([NoFilter EXCEPT !.genre = <<"s", "F">>]),
   Some([NoFilter EXCEPT !.search = <<"9">>])}

\* GET /api/v1/books while another request creates or deletes books
ListNext ==
  \/ \E r \in QueryCreateRequests, f \in BOOLEAN : CreateBookBegin("p1", r, f)
  \/ \E f \in BOOLEAN : CreateBookInsert("p1", f)
  \/ \E id \in Ids, f \in BOOLEAN : DeleteBookBegin("p1", id, f)
  \/ \E f \in BOOLEAN : DeleteBookExec("p1", f)
  \/ \E filter \in ListFilters, f \in BOOLEAN : GetBooksList("p2", filter, f)
  \/ \E f \in BOOLEAN : GetBooksTotal("p2", f)
  \/ Respond

ListSpec == Init /\ [][ListNext]_vars

\* one writing request at a time, and every read operation and the health
\* check between its repository calls
FrameNext ==
  \/ Calls({"p1"}, CoreCreateRequests, CoreUpdateRequests)
  \/ \E id \in ReadIds, f \in BOOLEAN : GetBookByID("p2", id, f)
  \/ \E isbn \in ReadIsbns, f \in BOOLEAN : GetBookByISBN("p2", isbn, f)
  \/ \E filter \in ListFilters, f \in BOOLEAN : GetAllBooks("p2", filter, f)
  \/ \E filter \in ListFilters, f \in BOOLEAN : GetBooksCount("p2", filter, f)
  \/ HealthCheck("p2")

FrameSpec == Init /\ [][FrameNext]_vars

\* the start of the program: the database is new, its table empty, or it is
\* the database of an earlier run
InitDb ==
  /\ skew \in Skews
  /\ trigger \in BOOLEAN
  /\ now = StartTime
  /\ \/ books = << >> /\ nextID = 1
     \/ /\ books =
            InsertRow(
              InsertRow(<< >>, 1,
                        [ToBook(R1, AppClock(StartTime - 3)) EXCEPT !.id = 1]),
              2, [ToBook(R2, AppClock(StartTime - 1)) EXCEPT !.id = 2])
        /\ nextID = 3
  /\ pc = [p \in Procs |-> "idle"]
  /\ creq = [p \in Procs |-> NoCreate]
  /\ ureq = [p \in Procs |-> NoUpdate]
  /\ bid = [p \in Procs |-> 0]
  /\ lbook = [p \in Procs |-> NoBook]
  /\ lerr = [p \in Procs |-> "nil"]
  /\ ncalls = [p \in Procs |-> 0]
  /\ lrows = [p \in Procs |-> NoRows]
  /\ resp = NoResp

\* InitializeDatabase, run again and again, while requests create and delete
\* books
InitDbNext ==
  \/ \E f, ft \in BOOLEAN : InitializeDatabaseSchema("p1", f, ft)
  \/ \E f \in BOOLEAN : InsertSampleDataCount("p1", f)
  \/ \E f \in BOOLEAN : InsertSampleBook("p1", f)
  \/ \E r \in QueryCreateRequests, f \in BOOLEAN : CreateBookBegin("p2", r, f)
  \/ \E f \in BOOLEAN : CreateBookInsert("p2", f)
  \/ \E id \in Ids, f \in BOOLEAN : DeleteBookBegin("p2", id, f)
  \/ \E f \in BOOLEAN : DeleteBookExec("p2", f)
  \/ Respond

InitDbSpec == InitDb /\ [][InitDbNext]_vars

(***************************************************************************)
(* Properties.  A step of a service operation is described by the state    *)
(* before it (unprimed) and after it (primed).                             *)
(***************************************************************************)
\* some stored book holds the isbn
IsbnHeld(bks, isbn) == \E i \in DOMAIN bks : bks[i].isbn = isbn

\* p makes the first step of CreateBook
CreateBegins(p) ==
  /\ pc[p] = "idle"
  /\ resp = NoResp
  /\ \/ pc'[p] = "create_insert"
     \/ resp'.proc = p /\ resp'.op = "create"

\* the request of that CreateBook
CreateArg(p) == IF pc'[p] = "create_insert" THEN creq'[p] ELSE resp'.creq

\* p makes the last step of an operation op that called the repository
Returns(p, l, op) == pc[p] = l /\ resp'.proc = p /\ resp'.op = op

\* the rules Validate implements: required fields and numeric ranges
RequiredMissing(r) ==
  \/ r.title = Empty
  \/ r.author = Empty
  \/ r.isbn = Empty
  \/ r.publisher = Empty
  \/ r.genre = Empty

InRange(r) ==
  /\ 1000 <= r.publish_year
  /\ r.publish_year <= 2030
  /\ r.pages >= 1

\* the rules of the data model: Validate's and the length caps
WithinCaps(r) ==
  /\ Len(r.title) <= 255
  /\ Len(r.author) <= 255
  /\ Len(r.publisher) <= 255
  /\ Len(r.genre) <= 100
  /\ Len(r.description) <= DescriptionCap

DocValid(r) == ~RequiredMissing(r) /\ InRange(r) /\ WithinCaps(r)

\* C1: in every reachable state, concurrent requests included, no two stored
\* books have the same ISBN.
C1_IsbnUnique ==
  \A i, j \in DOMAIN books : i # j => books[i].isbn # books[j].isbn

\* a CreateBook that passed the service's ISBN check was rejected by the
\* table's UNIQUE constraint, and so was the write of an UpdateBook
C1_Witness ==
  /\ resp.status = "StorageError"
  /\ resp.cause = "unique_violation"
  /\ resp.op = "update"
  /\ Cardinality(DOMAIN books) = 3

\* C2: CreateBook with a valid request whose ISBN a stored book holds fails
\* with ConflictError and leaves the table as it was (the ISBN lookup itself
\* answering; a lookup that fails with a storage error is another case).
C2_DuplicateIsbnConflict ==
  [][\A p \in Procs :
       (/\ CreateBegins(p)
        /\ Validate(CreateArg(p)) = "nil"
        /\ IsbnHeld(books, CreateArg(p).isbn)
        /\ ~(pc'[p] = "create_insert" /\ lerr'[p] = "connection"))
       => /\ resp'.proc = p
          /\ resp'.status = "ConflictError"
          /\ pc'[p] = "idle"
          /\ books' = books
          /\ nextID' = nextID]_vars

C2_Witness ==
  /\ resp.op = "create"
  /\ resp.status = "ConflictError"
  /\ IsbnHeld(books, resp.creq.isbn)
  /\ Cardinality(DOMAIN books) = 2

\* the last step of CreateBook by p succeeded as C3 says
CreateSucceeded(p) ==
  LET b == resp'.book
      r == creq[p]
  IN /\ resp'.status = "ok"
     /\ b.id > 0
     /\ b.id \notin DOMAIN books
     /\ books' = InsertRow(books, b.id, b)
     /\ Cardinality(DOMAIN books') = Cardinality(DOMAIN books) + 1
     /\ b.available = TRUE
     /\ b.title = r.title /\ b.author = r.author /\ b.isbn = r.isbn
     /\ b.publisher = r.publisher /\ b.publish_year = r.publish_year
     /\ b.genre = r.genre /\ b.pages = r.pages
     /\ b.description = r.description
     /\ b.created_at = b.updated_at
     /\ b.created_at # 0

C4_InvalidRejectedFirst ==
  [][\A p \in Procs :
       (CreateBegins(p)
          /\ (RequiredMissing(CreateArg(p)) \/ ~InRange(CreateArg(p))))
       => /\ resp'.proc = p
          /\ resp'.status = "ValidationError"
          /\ resp'.ncalls = 0
          /\ ncalls' = ncalls
          /\ now' = now
          /\ books' = books
          /\ nextID' = nextID]_vars

C4_Witness ==
  /\ resp.op = "create"
  /\ resp.status = "ValidationError"
  /\ resp.creq.title = Empty
  /\ resp.ncalls = 0

\* C5: CreateBook fails with ValidationError when title, author or publisher
\* is longer than 255 characters, genre longer than 100 or description longer
\* than 1000.
C5_CapsValidated ==
  (resp.op = "create" /\ ~WithinCaps(resp.creq))
    => resp.status = "ValidationError"

\* C6: with the required fields present, CreateBook passes validation exactly
\* when 1000 <= publish_year <= 2030 and pages >= 1.
C6_RangeValidation ==
  /\ (resp.op = "create" /\ ~RequiredMissing(resp.creq))
       => (resp.status = "ValidationError" <=> ~InRange(resp.creq))
  /\ \A p \in Procs :
       (pc[p] = "create_insert" /\ ~RequiredMissing(creq[p]))
         => InRange(creq[p])

\* the upper boundary of publish_year was accepted and the book stored
C6_Witness ==
  /\ resp.op = "create"
  /\ resp.status = "ok"
  /\ resp.creq.publish_year = 2030
  /\ resp.book.id \in DOMAIN books

RequestFields ==
  {"title", "author", "isbn", "publisher", "publish_year", "genre", "pages",
   "available", "description"}

\* C7: a successful UpdateBook(id, request) sets the fields present in the
\* request and leaves the others, never changes id and created_at, and
\* modifies no other book.
C7_PartialUpdateFrame ==
  [][\A p \in Procs :
       (Returns(p, "update_write", "update") /\ resp'.status = "ok")
       => LET id == bid[p]
              r == ureq[p]
          IN /\ DOMAIN books' = DOMAIN books
             /\ \A i \in DOMAIN books \ {id} : books'[i] = books[i]
             /\ books'[id].id = books[id].id
             /\ books'[id].created_at = books[id].created_at
             /\ \A f \in RequestFields :
                  books'[id][f] = IF IsNil(r[f]) THEN books[id][f] ELSE Val(r[f])
             /\ \A f \in RequestFields : resp'.book[f] = books'[id][f]]_vars

\* an update of the title and the pages alone went through
C7_Witness ==
  /\ resp.op = "update"
  /\ resp.status = "ok"
  /\ ~IsNil(resp.ureq.title)
  /\ IsNil(resp.ureq.available)
  /\ resp.id \in DOMAIN books
  /\ books[resp.id].title = Val(resp.ureq.title)
  /\ books[resp.id].author = R1.author

\* C8: after every successful UpdateBook the book's updated_at is strictly
\* later than before.
C8_UpdatedAtAdvances ==
  [][\A p \in Procs :
       (Returns(p, "update_write", "update") /\ resp'.status = "ok")
       => books'[bid[p]].updated_at > books[bid[p]].updated_at]_vars

\* C9: every stored book has updated_at >= created_at.
C9_UpdatedNotBeforeCreated ==
  \A i \in DOMAIN books : books[i].updated_at >= books[i].created_at

\* C10: every stored book has a non-empty title, author, isbn, publisher and
\* genre, a publish_year in 1000..2030 and pages > 0.
C10_RowsWellFormed ==
  \A i \in DOMAIN books :
    /\ books[i].title # Empty
    /\ books[i].author # Empty
    /\ books[i].isbn # Empty
    /\ books[i].publisher # Empty
    /\ books[i].genre # Empty
    /\ books[i].publish_year \in 1000..2030
    /\ books[i].pages > 0

\* p makes the first step of UpdateBook
UpdateBegins(p) ==
  /\ pc[p] = "idle"
  /\ resp = NoResp
  /\ \/ pc'[p] \in {"update_check", "update_write"}
     \/ resp'.proc = p /\ resp'.op = "update"

\* the id and the request of that UpdateBook
UpdateId(p) == IF pc'[p] = "idle" THEN resp'.id ELSE bid'[p]

UpdateArg(p) == IF pc'[p] = "idle" THEN resp'.ureq ELSE ureq'[p]

\* the operation of p returns in this step because the connection failed
ConnectionLost(p) == resp'.proc = p /\ resp'.cause = "connection"

\* C11: UpdateBook with an id > 0 that identifies no stored book fails with
\* NotFound and leaves every stored book as it was (the lookup itself
\* answering).
C11_UpdateMissingNotFound ==
  [][\A p \in Procs :
       (/\ UpdateBegins(p)
        /\ UpdateId(p) > 0
        /\ UpdateId(p) \notin DOMAIN books
        /\ ~ConnectionLost(p))
       => /\ resp'.proc = p
          /\ resp'.status = "NotFound"
          /\ pc'[p] = "idle"
          /\ books' = books
          /\ nextID' = nextID]_vars

\* an UpdateBook of a deleted book was answered NotFound by its first lookup
C11_Witness ==
  /\ resp.op = "update"
  /\ resp.status = "NotFound"
  /\ resp.ncalls = 1
  /\ resp.id > 0
  /\ resp.id \notin DOMAIN books
  /\ books # << >>

\* another stored book than id holds the isbn
HeldByOther(bks, id, isbn) == \E i \in DOMAIN bks : i # id /\ bks[i].isbn = isbn

\* C12: UpdateBook on an existing book fails with ConflictError exactly when
\* the request supplies an ISBN other than the book's and another stored book
\* holds that ISBN; the table is then left as it was; the book's own ISBN never
\* conflicts (the lookups themselves answering).
C12_UpdateConflictExactly ==
  [][\A p \in Procs :
       /\ (UpdateBegins(p) /\ UpdateId(p) \in DOMAIN books /\ ~ConnectionLost(p))
          => LET id == UpdateId(p)
                 r == UpdateArg(p)
             IN /\ pc'[p] = "update_check"
                     <=> (~IsNil(r.isbn) /\ Val(r.isbn) # books[id].isbn)
                /\ pc'[p] = "update_write"
                     <=> (IsNil(r.isbn) \/ Val(r.isbn) = books[id].isbn)
       /\ (pc[p] = "update_check" /\ pc'[p] # "update_check"
             /\ ~ConnectionLost(p) /\ lerr'[p] # "connection")
          => /\ (resp'.proc = p /\ resp'.status = "ConflictError")
                  <=> HeldByOther(books, bid[p], Val(ureq[p].isbn))
             /\ HeldByOther(books, bid[p], Val(ureq[p].isbn)) => books' = books
       /\ (resp'.proc = p /\ resp'.op = "update"
             /\ resp'.status = "ConflictError")
          => pc[p] = "update_check"]_vars

\* an UpdateBook asking for the ISBN of another book was refused
C12_Witness ==
  /\ resp.op = "update"
  /\ resp.status = "ConflictError"
  /\ resp.id \in DOMAIN books
  /\ HeldByOther(books, resp.id, Val(resp.ureq.isbn))
  /\ books[resp.id].isbn # Val(resp.ureq.isbn)

\* p makes a lookup, which is one step
Reads(p, op) == resp = NoResp /\ resp'.proc = p /\ resp'.op = op

\* C13: once DeleteBook(id) has succeeded, every later GetBookByID(id) fails
\* with NotFound whatever was called in between: the successful delete leaves
\* no row under the id, the id lies below the sequence, which never goes back,
\* no step stores a row under an id below the sequence that has none, and a
\* GetBookByID of an id without a row answers NotFound.
C13_DeletedStaysGone ==
  [][/\ \A p \in Procs :
          (Returns(p, "delete_exec", "delete") /\ resp'.status = "ok")
          => bid[p] \notin DOMAIN books' /\ bid[p] < nextID'
     /\ nextID' >= nextID
     /\ \A i \in 1..(nextID - 1) : i \notin DOMAIN books => i \notin DOMAIN books'
     /\ \A p \in Procs :
          (Reads(p, "get") /\ resp'.id > 0 /\ resp'.id \notin DOMAIN books
             /\ ~ConnectionLost(p))
          => resp'.status = "NotFound" /\ books' = books]_vars

\* book 1 was deleted, a book was created after that, and GetBookByID(1)
\* answered NotFound
C13_Witness ==
  /\ resp.op = "get"
  /\ resp.status = "NotFound"
  /\ resp.id = 1
  /\ resp.id \notin DOMAIN books
  /\ \E i \in DOMAIN books : i > 2

\* C14: GetBookByID, UpdateBook and DeleteBook with id <= 0 and GetBookByISBN
\* with the empty ISBN fail with InvalidArgument without a repository call,
\* the table neither read nor changed.
C14_InvalidArgumentFirst ==
  [][\A p \in Procs :
       /\ (resp = NoResp /\ resp'.proc = p
             /\ \/ resp'.op \in {"get", "update", "delete"} /\ resp'.id <= 0
                \/ resp'.op = "get_isbn" /\ resp'.isbn = Empty)
          => /\ resp'.status = "InvalidArgument"
             /\ resp'.ncalls = 0
             /\ now' = now
             /\ books' = books
             /\ nextID' = nextID
       /\ (pc[p] = "idle" /\ pc'[p] \in {"update_check", "update_write",
                                         "delete_exec"})
          => bid'[p] > 0]_vars

C14_Witness ==
  /\ resp.op = "get"
  /\ resp.id < 0
  /\ resp.status = "InvalidArgument"
  /\ resp.ncalls = 0
  /\ now = StartTime

\* p makes the first step of DeleteBook
DeleteBegins(p) ==
  /\ pc[p] = "idle"
  /\ resp = NoResp
  /\ \/ pc'[p] = "delete_exec"
     \/ resp'.proc = p /\ resp'.op = "delete"

DeleteId(p) == IF pc'[p] = "idle" THEN resp'.id ELSE bid'[p]

\* C15: DeleteBook(id) of a stored book removes that book and no other, the
\* number of books going down by one; DeleteBook(id) with id > 0 of no stored
\* book fails with NotFound and removes nothing (no repository call failing
\* for lack of connectivity in the first case).
C15_DeleteExactlyOne ==
  [][\A p \in Procs :
       /\ (DeleteBegins(p) /\ DeleteId(p) > 0 /\ DeleteId(p) \notin DOMAIN books)
          => /\ resp'.proc = p
             /\ resp'.status = "NotFound"
             /\ books' = books
       /\ (DeleteBegins(p) /\ DeleteId(p) \in DOMAIN books /\ ~ConnectionLost(p))
          => pc'[p] = "delete_exec" /\ books' = books
       /\ (Returns(p, "delete_exec", "delete") /\ bid[p] \in DOMAIN books
             /\ ~ConnectionLost(p))
          => /\ resp'.status = "ok"
             /\ DOMAIN books' = DOMAIN books \ {bid[p]}
             /\ Cardinality(DOMAIN books') = Cardinality(DOMAIN books) - 1
             /\ \A i \in DOMAIN books' : books'[i] = books[i]]_vars

\* book 1 was deleted and book 2 is still what it was
C15_Witness ==
  /\ resp.op = "delete"
  /\ resp.status = "ok"
  /\ resp.id = 1
  /\ DOMAIN books = {2}
  /\ books[2].isbn = R2.isbn
  /\ books[2].title = R2.title

\* C16: after a successful CreateBook returned a book with id i, and until an
\* UpdateBook or DeleteBook on i, GetBookByID(i) and GetBookByISBN(its isbn)
\* return a book with the fields of the returned one: the returned book is
\* the stored row, only the write of an UpdateBook or DeleteBook on i changes
\* row i, and both lookups return the stored row (the lookup itself
\* answering).
C16_ReadBackCreated ==
  [][/\ \A p \in Procs :
          (Returns(p, "create_insert", "create") /\ resp'.status = "ok")
          => /\ resp'.book.id \in DOMAIN books'
             /\ books'[resp'.book.id] = resp'.book
             /\ resp'.book.isbn = creq[p].isbn
     /\ \A i \in DOMAIN books :
          (i \notin DOMAIN books' \/ books'[i] # books[i])
          => \E p \in Procs :
               pc[p] \in {"update_write", "delete_exec"} /\ bid[p] = i
     /\ \A p \in Procs :
          /\ (Reads(p, "get") /\ resp'.id \in DOMAIN books /\ ~ConnectionLost(p))
             => resp'.status = "ok" /\ resp'.book = books[resp'.id]
          /\ (Reads(p, "get_isbn") /\ IsbnHeld(books, resp'.isbn)
                /\ ~ConnectionLost(p))
             => /\ resp'.status = "ok"
                /\ resp'.book.isbn = resp'.isbn
                /\ resp'.book.id \in DOMAIN books
                /\ resp'.book = books[resp'.book.id]]_vars

\* the book created from R3 was read back by its ISBN
C16_Witness ==
  /\ resp.op = "get_isbn"
  /\ resp.status = "ok"
  /\ resp.isbn = R3.isbn
  /\ resp.book.id > 2
  /\ resp.book = [ToBook(R3, resp.book.created_at) EXCEPT !.id = resp.book.id]
  /\ books[resp.book.id] = resp.book

\* t occurs in s
Contains(s, t) ==
  \E i \in 0..(Len(s) - Len(t)) : SubSeq(s, i + 1, i + Len(t)) = t

\* t occurs in s, the case of letters set aside
ContainsFold(s, t) == Contains(Lower(s), Lower(t))

\* the documented meaning of the author, genre and available fields
SatisfiesFields(f, row) ==
  /\ f.author # Empty => ContainsFold(row.author, f.author)
  /\ f.genre # Empty => Lower(row.genre) = Lower(f.genre)
  /\ ~IsNil(f.available) => row.available = Val(f.available)

\* the documented meaning of the search term
SatisfiesSearch(f, row) ==
  f.search # Empty
    => \/ ContainsFold(row.title, f.search)
       \/ ContainsFold(row.author, f.search)
       \/ ContainsFold(row.description, f.search)

\* the rows of a returned list
Listed == {resp.list[k] : k \in DOMAIN resp.list}

\* a GetAllBooks has returned a list
ListReturned == resp.op = "list" /\ resp.status = "ok"

\* C17: GetAllBooks returns the books ordered by created_at descending: of
\* two books of the result the one with the later created_at comes first.
C17_ListNewestFirst ==
  ListReturned
    => \A i, j \in DOMAIN resp.list :
         resp.list[i].created_at > resp.list[j].created_at => i < j

\* a list of three books or more, each created after the one that follows it
C17_Witness ==
  /\ ListReturned
  /\ Len(resp.list) >= 3
  /\ \A i, j \in DOMAIN resp.list :
       i < j => resp.list[i].created_at > resp.list[j].created_at
  /\ \E i \in DOMAIN resp.list : resp.list[i].id > 2

\* C18: GetAllBooks(filter) returns exactly the stored books that satisfy
\* every present field of the filter: author a case-insensitive substring of
\* the book's author, genre equal to the book's genre but for case, available
\* equal; the nil and the empty filter return every book.
C18_ListExactlyMatching ==
  /\ (ListReturned /\ IsNil(resp.filter))
       => Listed = {books[i] : i \in DOMAIN books}
  /\ (ListReturned /\ ~IsNil(resp.filter) /\ Val(resp.filter).search = Empty)
       => /\ Listed = {books[i] : i \in {j \in DOMAIN books :
                          SatisfiesFields(Val(resp.filter), books[j])}}
          /\ Len(resp.list) = Cardinality(Listed)

\* C19: GetBooksCount(filter) is the number of books GetAllBooks(filter)
\* returns on the same table.
C19_CountIsListLength ==
  (resp.op = "count" /\ resp.status = "ok")
    => \A rows \in GetAll(books, resp.filter) : resp.count = Len(rows)

\* a count with a search term that selects some of the books and not others
C19_Witness ==
  /\ resp.op = "count"
  /\ resp.status = "ok"
  /\ ~IsNil(resp.filter)
  /\ Val(resp.filter).search # Empty
  /\ resp.count >= 1
  /\ resp.count < Cardinality(DOMAIN books)
  /\ Cardinality(DOMAIN books) >= 3

\* C20: a search term selects a book exactly when it is a case-insensitive
\* substring of the book's title, author or description; isbn, publisher and
\* genre are not consulted.
C20_SearchThreeFields ==
  (ListReturned /\ ~IsNil(resp.filter)
     /\ Val(resp.filter) = [NoFilter EXCEPT !.search = Val(resp.filter).search])
    => Listed = {books[i] : i \in {j \in DOMAIN books :
                    SatisfiesSearch(Val(resp.filter), books[j])}}

\* C21: on GET, PUT and DELETE /api/v1/books/{id} and GET
\* /api/v1/books/isbn/{isbn} a request for a book that does not exist is
\* answered with status 404 and an envelope of status "error".
C21_MissingBookIs404 ==
  (/\ resp.op \in {"get", "update", "delete", "get_isbn"}
   /\ resp.status = "NotFound"
   /\ resp.cause = "no_rows")
    => HttpStatus(resp) = 404 /\ Envelope(resp) = "error"

\* C22: a request that fails because of a storage failure is answered with
\* status 500, never with 400 or 404.
C22_StorageFailureIs500 ==
  resp.cause \in {"connection", "value_too_long", "check_violation",
                  "unique_violation"}
    => HttpStatus(resp) = 500

\* C23: a request with id = 0 that the service rejects as InvalidArgument on
\* GET, PUT or DELETE /api/v1/books/{id} is answered with status 400.
C23_InvalidIdIs400 ==
  (/\ resp.op \in {"get", "update", "delete"}
   /\ resp.status = "InvalidArgument"
   /\ resp.id = 0)
    => HttpStatus(resp) = 400

\* C24: a service operation whose repository call failed with a storage
\* failure fails itself with that cause and makes no further repository
\* call; a failed ISBN lookup of CreateBook or UpdateBook is not taken for
\* 'no conflict'.
C24_StorageFailurePropagates ==
  /\ \A p \in Procs : pc[p] # "idle" => lerr[p] # "connection"
  /\ resp.cause = "connection" => resp.status \notin {"ok", "none"}

\* the stored books that hold the isbn
Holders(bks, isbn) == {i \in DOMAIN bks : bks[i].isbn = isbn}

\* C25: when two CreateBook requests with the same unused ISBN both pass the
\* ISBN lookup before either inserts, the first insert stores the book and the
\* second returns an error and stores nothing, so that exactly one book holds
\* the ISBN (no repository call failing for lack of connectivity).
C25_OneOfTwoCreatesWins ==
  [][\A p \in Procs :
       (Returns(p, "create_insert", "create") /\ lerr[p] = "no_rows"
          /\ ~ConnectionLost(p))
       => IF IsbnHeld(books, creq[p].isbn)
            THEN /\ resp'.status # "ok"
                 /\ books' = books
                 /\ Cardinality(Holders(books', creq[p].isbn)) = 1
            ELSE (\E q \in Procs \ {p} :
                    pc[q] = "create_insert" /\ creq[q].isbn = creq[p].isbn)
                 => /\ resp'.status = "ok"
                    /\ Cardinality(Holders(books', creq[p].isbn)) = 1]_vars

\* both requests passed the lookup, the first has stored its book and the
\* second is about to insert a book with the same ISBN
C25_Witness ==
  /\ resp.op = "create"
  /\ resp.status = "ok"
  /\ resp.book.id \in DOMAIN books
  /\ books[resp.book.id] = resp.book
  /\ \E p \in Procs :
       /\ pc[p] = "create_insert"
       /\ lerr[p] = "no_rows"
       /\ creq[p].isbn = resp.book.isbn
       /\ resp.proc # p

\* C26: when two UpdateBook requests on one book set disjoint fields and run
\* concurrently, neither write takes back what the other wrote: a successful
\* write leaves every field its request does not set as it is stored.
C26_NoFieldReverted ==
  [][\A p \in Procs :
       (Returns(p, "update_write", "update") /\ resp'.status = "ok")
       => \A f \in RequestFields :
            IsNil(ureq[p][f]) => books'[bid[p]][f] = books[bid[p]][f]]_vars

\* C27: an UpdateBook whose book was deleted between its read and its write
\* fails and the book stays deleted, and a DeleteBook whose book was deleted
\* between its read and its delete fails, so that of two concurrent deletes
\* one succeeds.
C27_NoResurrection ==
  [][\A p \in Procs :
       /\ (Returns(p, "update_write", "update") /\ bid[p] \notin DOMAIN books)
          => resp'.status # "ok" /\ books' = books
       /\ (Returns(p, "delete_exec", "delete") /\ bid[p] \notin DOMAIN books)
          => resp'.status # "ok" /\ books' = books
       /\ (Returns(p, "delete_exec", "delete") /\ bid[p] \in DOMAIN books
             /\ ~ConnectionLost(p))
          => resp'.status = "ok" /\ bid[p] \notin DOMAIN books']_vars

\* the write of an UpdateBook found its book deleted
C27_Witness ==
  /\ resp.op = "update"
  /\ resp.status = "NotFound"
  /\ resp.ncalls >= 2
  /\ resp.id \notin DOMAIN books

\* C28: in the response to GET /api/v1/books meta.total equals meta.count,
\* the number of books of the returned list, also when other requests create
\* or delete books while the handler runs.
C28_TotalIsCount ==
  (resp.op = "books" /\ resp.status = "ok") => resp.count = Len(resp.list)

\* C29: InitializeDatabase inserts the sample books only when the books table
\* is empty: its schema statements change no row, a run whose count finds a
\* book returns without adding, removing or modifying a book, only a run
\* whose count found none inserts, and an insert leaves the stored rows as
\* they are; so a run after a run that stored a sample book changes nothing.
C29_SamplesOnlyIntoEmptyTable ==
  [][\A p \in Procs :
       /\ (pc[p] = "idle" /\ (pc'[p] = "init_count" \/ Reads(p, "init")))
          => books' = books /\ nextID' = nextID
       /\ (pc[p] = "init_count" /\ pc'[p] # "init_count" /\ books # << >>
             /\ ~ConnectionLost(p))
          => /\ resp'.proc = p
             /\ resp'.op = "init"
             /\ resp'.status = "ok"
             /\ books' = books
             /\ nextID' = nextID
       /\ (pc[p] = "init_count" /\ pc'[p] = "init_insert")
          => books = << >> /\ books' = books
       /\ (pc[p] = "init_insert" /\ ncalls'[p] # ncalls[p])
          => \A i \in DOMAIN books : i \in DOMAIN books' /\ books'[i] = books[i]]_vars

\* a first run has stored the sample books in the empty table and a second
\* run has returned after its count
C29_Witness ==
  /\ resp.op = "init"
  /\ resp.status = "ok"
  /\ resp.ncalls = 2
  /\ skew = 0
  /\ Cardinality(DOMAIN books) = Len(SampleBooks)
  /\ \A i \in DOMAIN books :
       /\ books[i].created_at >= StartTime
       /\ \E k \in DOMAIN SampleBooks : books[i].title = SampleBooks[k].title

\* C30: GetBookByID, GetBookByISBN, GetAllBooks, GetBooksCount and the
\* health check, and every service operation that returns an error of its
\* checks before the write, leave the stored books and all their fields as
\* they are.
C30_ReadsChangeNothing ==
  [][\A p \in Procs :
       /\ (\E op \in {"get", "get_isbn", "list", "count", "health"} :
             Reads(p, op))
          => books' = books /\ nextID' = nextID
       /\ (resp = NoResp /\ resp'.proc = p
             /\ resp'.status \in {"ValidationError", "InvalidArgument",
                                  "ConflictError", "NotFound"})
          => books' = books /\ nextID' = nextID]_vars

\* a book was created and then read by its ISBN, and it is still stored
C30_Witness ==
  /\ resp.op = "get_isbn"
  /\ resp.status = "ok"
  /\ resp.book.id > 2
  /\ resp.book.id \in DOMAIN books
  /\ books[resp.book.id] = resp.book
  /\ Cardinality(DOMAIN books) = 3

====
